---- MODULE Spec2Model ----
(***************************************************************************)
(* SMA crossover signal scripts of RoaringBot (src/algos-python):          *)
(*   sma_signal_runner.py  compute_signal, main   (text signal on stdout)  *)
(*   algo_runner.py        compute_sma_signals, main (JSON on stdout)      *)
(*   main.py               compute_sma_signals, submit_market, main (live) *)
(*   backtest_sma.py       run_sma_signal_test (tail fed to the runner)    *)
(*                                                                         *)
(* A DataFrame is a record [columns, rows]; a row is a function from the   *)
(* column names to cells.  A cell is a record [k, n, d]: k = "num" is the  *)
(* rational n/d (a close c is c/1, a rolling mean over w bars is sum/w),   *)
(* k = "nan" is NaN/None, k = "str" is a non-numeric string.  Means are    *)
(* compared as exact rationals; the closes are small integers, for which   *)
(* float64 sums are exact and float64 division is monotone.               *)
(***************************************************************************)
EXTENDS Integers, Sequences, FiniteSets

VARIABLES
    df,          \* the caller's DataFrame (the object passed to the engine)
    input,       \* [frame, short, long]: the arguments as they were at the call
    short_n,     \* short SMA window
    long_n,      \* long SMA window
    pc,          \* position of the running script
    callee,      \* which engine function / script ran
    outcome,     \* what the engine function returned or raised
    stdin,       \* the request text, parsed into its relevant shape
    stdout,      \* lines printed to stdout
    stderr,      \* lines printed to stderr
    qty_cfg,     \* main.py QTY, in thirds of a thousandth of a share
    current_qty, \* main.py broker position, same unit
    open_orders, \* main.py: the broker reports an open order for SYMBOL
    orders       \* main.py: orders handed to trading_client.submit_order

vars == <<df, input, short_n, long_n, pc, callee, outcome, stdin, stdout,
          stderr, qty_cfg, current_qty, open_orders, orders>>

-----------------------------------------------------------------------------
(* Bounds of the model *)

MaxLen == 4      \* longest close series given to the engine functions
MaxClose == 2    \* closes are 0..MaxClose
MaxWin == 2      \* window lengths are -1..MaxWin
MaxBars == 3     \* longest bar list in a stdin request
MaxBarClose == 1 \* numeric closes of a stdin request are 0..MaxBarClose
MaxShares == 1   \* whole-share quantities are -1..MaxShares shares
MaxFrac == 4     \* fractional quantities are 1..MaxFrac thirds of a thousandth

(* Program constants *)

DefaultShort == 5
DefaultLong == 15
TailPad == 20

-----------------------------------------------------------------------------
(* Cells *)

Num(x) == [k |-> "num", n |-> x, d |-> 1]
NaN == [k |-> "nan", n |-> 0, d |-> 1]
Str == [k |-> "str", n |-> 0, d |-> 1]
Missing == [k |-> "missing", n |-> 0, d |-> 1]

\* Python float comparisons: any comparison with NaN is False.
Lt(x, y) == x.k = "num" /\ y.k = "num" /\ x.n * y.d < y.n * x.d
Le(x, y) == x.k = "num" /\ y.k = "num" /\ x.n * y.d <= y.n * x.d
Gt(x, y) == Lt(y, x)
Ge(x, y) == Le(y, x)

Max(a, b) == IF a >= b THEN a ELSE b

-----------------------------------------------------------------------------
(* pandas *)

\* pd.DataFrame over a list of closes: one column, "close"
FrameOf(closes) ==
    [columns |-> {"close"},
     rows |-> [i \in 1..Len(closes) |-> [c \in {"close"} |-> Num(closes[i])]]]

NoFrame == [columns |-> {}, rows |-> <<>>]

\* df.empty: some axis has length 0
Empty(f) == f.columns = {} \/ Len(f.rows) = 0

\* df[name] as a sequence of cells
Column(f, name) == [i \in 1..Len(f.rows) |-> f.rows[i][name]]

\* df[name] = values
WithColumn(f, name, values) ==
    [columns |-> f.columns \cup {name},
     rows |-> [i \in 1..Len(f.rows) |->
                 [c \in f.columns \cup {name} |->
                     IF c = name THEN values[i] ELSE f.rows[i][c]]]]

RECURSIVE SumCells(_, _, _)
SumCells(col, lo, hi) ==
    IF hi < lo THEN 0 ELSE col[hi].n + SumCells(col, lo, hi - 1)

\* Series.rolling(n) refuses a negative window (ValueError), and .mean()
\* refuses a column that holds a non-numeric string (DataError).
RollingRaises(col, n) ==
    n < 0 \/ \E i \in 1..Len(col) : col[i].k = "str"

\* Series.rolling(n).sum() in place of .mean()
RollingSum(col, n) ==
    [i \in 1..Len(col) |->
        IF n >= 1 /\ i >= n /\ \A j \in (i - n + 1)..i : col[j].k = "num"
        THEN [k |-> "num", n |-> SumCells(col, i - n + 1, i), d |-> 1]
        ELSE NaN]

\* Series.rolling(n).mean(), min_periods = n: NaN until n observations are
\* in the window, NaN when the window holds a NaN, NaN for n = 0.
RollingMean(col, n) ==
    [i \in 1..Len(col) |->
        IF n >= 1 /\ i >= n /\ \A j \in (i - n + 1)..i : col[j].k = "num"
        THEN [k |-> "num", n |-> SumCells(col, i - n + 1, i), d |-> n]
        ELSE NaN]

\* df.dropna(): the rows with no NaN/None cell in any column
DropNa(f) ==
    [columns |-> f.columns,
     rows |-> SelectSeq(f.rows, LAMBDA r : \A c \in f.columns : r[c].k # "nan")]

\* df.tail(n)
FrameTail(f, n) ==
    [columns |-> f.columns,
     rows |-> IF n >= Len(f.rows) THEN f.rows
              ELSE SubSeq(f.rows, Len(f.rows) - n + 1, Len(f.rows))]

-----------------------------------------------------------------------------
(* The crossover rule, the same text in the three scripts *)

CrossoverLastNonStrict(prev, last) ==
    IF Le(prev["SMA_SHORT"], prev["SMA_LONG"]) /\ Ge(last["SMA_SHORT"], last["SMA_LONG"])
    THEN "BUY"
    ELSE IF Ge(prev["SMA_SHORT"], prev["SMA_LONG"]) /\ Le(last["SMA_SHORT"], last["SMA_LONG"])
    THEN "SELL"
    ELSE "HOLD"

CrossoverStrictPrev(prev, last) ==
    IF Lt(prev["SMA_SHORT"], prev["SMA_LONG"]) /\ Gt(last["SMA_SHORT"], last["SMA_LONG"])
    THEN "BUY"
    ELSE IF Gt(prev["SMA_SHORT"], prev["SMA_LONG"]) /\ Lt(last["SMA_SHORT"], last["SMA_LONG"])
    THEN "SELL"
    ELSE "HOLD"

Crossover(prev, last) ==
    IF Le(prev["SMA_SHORT"], prev["SMA_LONG"]) /\ Gt(last["SMA_SHORT"], last["SMA_LONG"])
    THEN "BUY"
    ELSE IF Ge(prev["SMA_SHORT"], prev["SMA_LONG"]) /\ Lt(last["SMA_SHORT"], last["SMA_LONG"])
    THEN "SELL"
    ELSE "HOLD"

\* df.iloc[-2], df.iloc[-1] (callers make sure, or not, that they exist)
PrevRowFirst(f) == f.rows[1]

PrevRow(f) == f.rows[Len(f.rows) - 1]

LastRow(f) == f.rows[Len(f.rows)]

\* An outcome of an engine function: what it returned or that it raised, and
\* the caller's DataFrame object as the call left it.
Return(signal, keys, caller) ==
    [kind |-> "return", signal |-> signal, keys |-> keys, caller |-> caller]
Raise(caller) ==
    [kind |-> "raise", signal |-> "-", keys |-> {}, caller |-> caller]

-----------------------------------------------------------------------------
(* sma_signal_runner.compute_signal *)

\* The same function with the guards of algo_runner.compute_sma_signals:
\* only long_n is checked, and the aligned rows are indexed unchecked.
ComputeSignalAlgoGuards(f, s, l) ==
    IF Empty(f) \/ Len(f.rows) < l THEN Return("HOLD", {}, f)
    ELSE IF "close" \notin f.columns THEN Raise(f)
    ELSE IF RollingRaises(Column(f, "close"), s) \/ RollingRaises(Column(f, "close"), l)
    THEN Raise(f)
    ELSE LET c1 == WithColumn(f, "SMA_SHORT", RollingMean(Column(f, "close"), s))
             c2 == WithColumn(c1, "SMA_LONG", RollingMean(Column(c1, "close"), l))
             d == DropNa(c2)
         IN  IF Len(d.rows) < 2 THEN Raise(f)
             ELSE Return(Crossover(PrevRow(d), LastRow(d)), {}, f)

\* `df = df.copy()` rebinds the local name, so the two columns are added to
\* the copy and the caller's object f is left as it was.
ComputeSignal(f, s, l) ==
    IF Empty(f) \/ Len(f.rows) < Max(s, l) THEN Return("HOLD", {}, f)
    ELSE IF "close" \notin f.columns THEN Raise(f)                  \* KeyError
    ELSE IF RollingRaises(Column(f, "close"), s) \/ RollingRaises(Column(f, "close"), l)
    THEN Raise(f)
    ELSE LET c1 == WithColumn(f, "SMA_SHORT", RollingMean(Column(f, "close"), s))
             c2 == WithColumn(c1, "SMA_LONG", RollingMean(Column(c1, "close"), l))
             d == DropNa(c2)
         IN  IF Len(d.rows) < 2 THEN Return("HOLD", {}, f)
             ELSE Return(Crossover(PrevRow(d), LastRow(d)), {}, f)

(* algo_runner.compute_sma_signals *)

\* The columns are assigned on the caller's object (the copy comes after
\* dropna), and iloc[-2] raises IndexError on fewer than 2 aligned rows.
AlgoComputeSmaSignals(f, s, l) ==
    IF Empty(f) \/ Len(f.rows) < l THEN Return("HOLD", {"signal", "reason"}, f)
    ELSE IF "close" \notin f.columns THEN Raise(f)                  \* KeyError
    ELSE IF RollingRaises(Column(f, "close"), s) THEN Raise(f)
    ELSE LET c1 == WithColumn(f, "SMA_SHORT", RollingMean(Column(f, "close"), s))
         IN  IF RollingRaises(Column(c1, "close"), l) THEN Raise(c1)
             ELSE LET c2 == WithColumn(c1, "SMA_LONG", RollingMean(Column(c1, "close"), l))
                      d == DropNa(c2)
                  IN  IF Len(d.rows) < 2 THEN Raise(c2)             \* IndexError
                      ELSE Return(Crossover(PrevRow(d), LastRow(d)),
                                  {"signal", "latest_close", "sma_short", "sma_long", "recent"},
                                  c2)

(* main.compute_sma_signals *)

\* Returns None (signal "None") on no data or fewer than 2 aligned rows; the
\* columns are assigned on the caller's object.
LiveComputeSmaSignals(f, s, l) ==
    IF Empty(f) THEN Return("None", {}, f)
    ELSE IF "close" \notin f.columns THEN Raise(f)
    ELSE IF RollingRaises(Column(f, "close"), s) THEN Raise(f)
    ELSE LET c1 == WithColumn(f, "SMA_SHORT", RollingMean(Column(f, "close"), s))
         IN  IF RollingRaises(Column(c1, "close"), l) THEN Raise(c1)
             ELSE LET c2 == WithColumn(c1, "SMA_LONG", RollingMean(Column(c1, "close"), l))
                      d == DropNa(c2)
                  IN  IF Len(d.rows) < 2 THEN Return("None", {}, c2)
                      ELSE Return(Crossover(PrevRow(d), LastRow(d)),
                                  {"prev", "last", "signal", "df_tail"}, c2)

-----------------------------------------------------------------------------
(* The engine functions called on a close series *)

RECURSIVE SeqsUpTo(_, _)
SeqsUpTo(S, n) ==
    IF n = 0 THEN {<<>>}
    ELSE LET shorter == SeqsUpTo(S, n - 1)
         IN  shorter \cup {Append(q, x) : q \in {r \in shorter : Len(r) = n - 1}, x \in S}

Idle == [kind |-> "none", signal |-> "-", keys |-> {}, caller |-> NoFrame]
NoRequest == [json |-> "none", short |-> [k |-> "absent", v |-> 0],
              long |-> [k |-> "absent", v |-> 0], bars_kind |-> "absent",
              bars |-> <<>>, ts |-> FALSE]

InitEngine ==
    /\ \E closes \in SeqsUpTo(0..MaxClose, MaxLen) : df = FrameOf(closes)
    /\ short_n \in -1..MaxWin
    /\ long_n \in -1..MaxWin
    /\ input = [frame |-> df, short |-> short_n, long |-> long_n]
    /\ pc = "ready"
    /\ callee = "none"
    /\ outcome = Idle
    /\ stdin = NoRequest
    /\ stdout = <<>>
    /\ stderr = <<>>
    /\ qty_cfg = 0
    /\ current_qty = 0
    /\ open_orders = FALSE
    /\ orders = <<>>

Call(name, result) ==
    /\ pc = "ready"
    /\ callee' = name
    /\ outcome' = result
    /\ df' = result.caller
    /\ pc' = "done"
    /\ UNCHANGED <<input, short_n, long_n, stdin, stdout, stderr, qty_cfg,
                   current_qty, open_orders, orders>>

CallComputeSignal == Call("compute_signal", ComputeSignal(df, short_n, long_n))

CallAlgoComputeSmaSignals ==
    Call("algo_runner.compute_sma_signals", AlgoComputeSmaSignals(df, short_n, long_n))

CallLiveComputeSmaSignals ==
    Call("main.compute_sma_signals", LiveComputeSmaSignals(df, short_n, long_n))

NextEngine ==
    \/ CallComputeSignal
    \/ CallAlgoComputeSmaSignals
    \/ CallLiveComputeSmaSignals

Spec == InitEngine /\ [][NextEngine]_vars

-----------------------------------------------------------------------------
(* The stdin scripts: sma_signal_runner.main and algo_runner.main *)

\* A request field for a window: absent, an integer, or a value int() refuses
WinFields ==
    {[k |-> "absent", v |-> 0], [k |-> "bad", v |-> 0]}
        \cup {[k |-> "int", v |-> w] : w \in -1..MaxWin}

\* The close of a bar: a number, null, a non-numeric string, or no such key
BarCloses == {Num(c) : c \in 0..MaxBarClose} \cup {NaN, Str, Missing}

\* What stdin holds: text that is not JSON, JSON that is not an object, or
\* an object whose "bars" is absent, a list of bars or a scalar.  ts: every
\* bar also carries a "timestamp" string.
Requests ==
    {[NoRequest EXCEPT !.json = j] : j \in {"invalid", "nonobject"}}
    \cup {[json |-> "object", short |-> s, long |-> l, bars_kind |-> "list",
           bars |-> b, ts |-> x] :
             s \in WinFields, l \in WinFields,
             b \in SeqsUpTo(BarCloses, MaxBars), x \in BOOLEAN}
    \cup {[json |-> "object", short |-> s, long |-> l, bars_kind |-> bk,
           bars |-> <<>>, ts |-> FALSE] :
             s \in WinFields, l \in WinFields, bk \in {"absent", "scalar"}}

\* json.loads(raw) and payload.get(...): raise on text that is not JSON
\* (JSONDecodeError) and on JSON that is not an object (AttributeError)
ParseRaises(req) == req.json # "object"

\* int(payload.get(key, default))
IntRaises(field) == field.k = "bad"
IntOf(field, default) == IF field.k = "absent" THEN default ELSE field.v

\* pd.DataFrame(bars) raises on a scalar ("DataFrame constructor not properly called")
FrameRaises(req) == req.bars_kind = "scalar"

\* pd.DataFrame(bars) over a list of dicts: the columns are the keys that
\* occur, a key a bar lacks is NaN in its row, JSON null is None/NaN.
DataFrame(req) ==
    LET cols == (IF \E i \in 1..Len(req.bars) : req.bars[i].k # "missing"
                 THEN {"close"} ELSE {})
                \cup (IF req.ts /\ req.bars # <<>> THEN {"timestamp"} ELSE {})
    IN  [columns |-> cols,
         rows |-> [i \in 1..Len(req.bars) |->
                     [c \in cols |->
                        IF c = "timestamp" THEN Str
                        ELSE IF req.bars[i].k = "missing" THEN NaN
                        ELSE req.bars[i]]]]

\* What a run of a script leaves: stdout, stderr, and the frame and windows
\* it got as far as building.
Ran3(out, err, f, s, l, res) ==
    [stdout |-> out, stderr |-> err, frame |-> f, short |-> s, long |-> l,
     outcome |-> res, escaped |-> FALSE]

\* An except clause that reports the error and prints no signal
RunnerExceptSilent(f, s, l, res) ==
    Ran3(<<>>, <<"error">>, f, s, l, res)

\* sma_signal_runner.main, `except Exception`: HOLD on stdout, the error on stderr
RunnerExcept(f, s, l, res) ==
    Ran3(<<"HOLD">>, <<"error">>, f, s, l, res)

\* sma_signal_runner.main
RunnerMain(req) ==
    IF ParseRaises(req) \/ IntRaises(req.short)
    THEN RunnerExcept(NoFrame, 0, 0, Idle)
    ELSE LET s == IntOf(req.short, DefaultShort) IN
    IF IntRaises(req.long) THEN RunnerExcept(NoFrame, s, 0, Idle)
    ELSE LET l == IntOf(req.long, DefaultLong) IN
    IF FrameRaises(req) THEN RunnerExcept(NoFrame, s, l, Idle)
    ELSE LET f == DataFrame(req) IN
    IF "close" \notin f.columns THEN Ran3(<<"HOLD">>, <<>>, f, s, l, Idle)
    ELSE LET res == ComputeSignal(f, s, l) IN
    IF res.kind = "raise" THEN RunnerExcept(res.caller, s, l, res)
    ELSE Ran3(<<res.signal>>, <<>>, res.caller, s, l, res)

\* A JSON object printed by algo_runner: its keys and its "signal" value
Json(keys, signal) == [keys |-> keys, signal |-> signal]

\* algo_runner.main, `except Exception`: {"error": str(e)}
AlgoExcept(f, s, l, res) ==
    Ran3(<<Json({"error"}, "-")>>, <<>>, f, s, l, res)

\* algo_runner.main
AlgoMain(req) ==
    IF ParseRaises(req) \/ IntRaises(req.short)
    THEN AlgoExcept(NoFrame, 0, 0, Idle)
    ELSE LET s == IntOf(req.short, DefaultShort) IN
    IF IntRaises(req.long) THEN AlgoExcept(NoFrame, s, 0, Idle)
    ELSE LET l == IntOf(req.long, DefaultLong) IN
    IF FrameRaises(req) THEN AlgoExcept(NoFrame, s, l, Idle)
    ELSE LET f == DataFrame(req) IN
    IF Empty(f) THEN Ran3(<<Json({"signal", "reason"}, "HOLD")>>, <<>>, f, s, l, Idle)
    ELSE LET res == AlgoComputeSmaSignals(f, s, l) IN
    IF res.kind = "raise" THEN AlgoExcept(res.caller, s, l, res)
    ELSE Ran3(<<Json(res.keys \cup {"symbol"}, res.signal)>>, <<>>, res.caller, s, l, res)

InitRequest ==
    /\ stdin \in Requests
    /\ df = NoFrame
    /\ short_n = 0
    /\ long_n = 0
    /\ input = [frame |-> NoFrame, short |-> 0, long |-> 0]
    /\ pc = "ready"
    /\ callee = "none"
    /\ outcome = Idle
    /\ stdout = <<>>
    /\ stderr = <<>>
    /\ qty_cfg = 0
    /\ current_qty = 0
    /\ open_orders = FALSE
    /\ orders = <<>>

Run(name, r) ==
    /\ pc = "ready"
    /\ callee' = name
    /\ stdout' = r.stdout
    /\ stderr' = r.stderr
    /\ df' = r.frame
    /\ short_n' = r.short
    /\ long_n' = r.long
    /\ outcome' = r.outcome
    /\ input' = [frame |-> IF FrameRaises(stdin) THEN NoFrame ELSE DataFrame(stdin),
                 short |-> r.short, long |-> r.long]
    /\ pc' = IF r.escaped THEN "crashed" ELSE "done"
    /\ UNCHANGED <<stdin, qty_cfg, current_qty, open_orders, orders>>

RunRunnerMain == Run("sma_signal_runner.main", RunnerMain(stdin))

RunAlgoMain == Run("algo_runner.main", AlgoMain(stdin))

NextRequest ==
    \/ RunRunnerMain
    \/ RunAlgoMain

SpecRequest == InitRequest /\ [][NextRequest]_vars

-----------------------------------------------------------------------------
(* backtest_sma.run_sma_signal_test *)

\* window = max(long, short) + 20: the number of trailing bars it feeds
SignalTestWindow(s, l) == Max(l, s) + TailPad

\* The payload piped to sma_signal_runner.py: the tail's closes, each with
\* its timestamp, and the two windows
SignalTestPayload(f, s, l) ==
    [json |-> "object",
     short |-> [k |-> "int", v |-> s],
     long |-> [k |-> "int", v |-> l],
     bars_kind |-> "list",
     bars |-> Column(FrameTail(f, SignalTestWindow(s, l)), "close"),
     ts |-> TRUE]

\* A price history: a short series, or TailPad older bars at x followed by
\* a short recent series r; with more than max(short, long) recent bars it
\* is longer than the window fed
Flat(x) == [i \in 1..TailPad |-> x]

Histories ==
    SeqsUpTo(0..MaxClose, MaxLen)
        \cup {Flat(x) \o r :
                x \in 0..MaxBarClose, r \in SeqsUpTo(0..MaxBarClose, MaxBars)}

InitBacktest ==
    /\ \E closes \in Histories : df = FrameOf(closes)
    /\ short_n \in 1..MaxWin
    /\ long_n \in 1..MaxWin
    /\ input = [frame |-> df, short |-> short_n, long |-> long_n]
    /\ pc = "ready"
    /\ callee = "none"
    /\ outcome = Idle
    /\ stdin = NoRequest
    /\ stdout = <<>>
    /\ stderr = <<>>
    /\ qty_cfg = 0
    /\ current_qty = 0
    /\ open_orders = FALSE
    /\ orders = <<>>

\* run_sma_signal_test: the runner is run on the payload and its stdout and
\* stderr are captured; the runner never exits non-zero
RunSmaSignalTest ==
    /\ pc = "ready"
    /\ LET r == RunnerMain(SignalTestPayload(df, short_n, long_n))
       IN  /\ stdin' = SignalTestPayload(df, short_n, long_n)
           /\ stdout' = r.stdout
           /\ stderr' = r.stderr
           /\ outcome' = r.outcome
    /\ callee' = "run_sma_signal_test"
    /\ pc' = "done"
    /\ UNCHANGED <<df, input, short_n, long_n, qty_cfg, current_qty,
                   open_orders, orders>>

NextBacktest ==
    \/ CallComputeSignal
    \/ RunSmaSignalTest

SpecBacktest == InitBacktest /\ [][NextBacktest]_vars

-----------------------------------------------------------------------------
(* main.py, the live trading script *)

\* Quantities are counted in thirds of a thousandth of a share, so that a
\* quantity is never half way between two thousandths: 3000 is one share.
Quantities == {3000 * k : k \in -1..MaxShares} \cup 1..MaxFrac

\* qty.is_integer()
IsWhole(qty) == qty % 3000 = 0

\* round(qty, 3): the nearest thousandth
Round3(qty) ==
    IF qty % 3 = 0 THEN qty
    ELSE IF qty % 3 = 1 THEN qty - 1
    ELSE qty + 1

\* submit_market: nothing for qty <= 0, else one order of the whole or the
\* rounded quantity handed to trading_client.submit_order
SubmitMarket(os, side, qty) ==
    IF qty <= 0 THEN os
    ELSE Append(os, [side |-> IF side = "BUY" THEN "BUY" ELSE "SELL",
                     qty |-> IF IsWhole(qty) THEN qty ELSE Round3(qty)])

\* The order decision with the position test of the BUY branch left out
PlaceOrderAnyPosition(os, signal, position, qty) ==
    IF signal = "BUY" THEN SubmitMarket(os, "BUY", qty)
    ELSE IF signal = "SELL" /\ position > 0 THEN SubmitMarket(os, "SELL", position)
    ELSE os

\* main, the if/elif/else on the signal and the position
PlaceOrder(os, signal, position, qty) ==
    IF signal = "BUY" /\ position <= 0 THEN SubmitMarket(os, "BUY", qty)
    ELSE IF signal = "SELL" /\ position > 0 THEN SubmitMarket(os, "SELL", position)
    ELSE os

InitLive ==
    /\ short_n \in 1..MaxWin          \* SHORT
    /\ long_n \in 1..MaxWin           \* LONG
    /\ qty_cfg \in Quantities         \* QTY
    /\ df = NoFrame
    /\ input = [frame |-> NoFrame, short |-> short_n, long |-> long_n]
    /\ pc = "start"
    /\ callee = "main.main"
    /\ outcome = Idle
    /\ stdin = NoRequest
    /\ stdout = <<>>
    /\ stderr = <<>>
    /\ current_qty = 0
    /\ open_orders = FALSE
    /\ orders = <<>>

\* fetch_bars returns an empty frame or the bars of SYMBOL; main aborts on
\* an empty frame
LiveFetchBars ==
    /\ pc = "start"
    /\ \E f \in {NoFrame} \cup {FrameOf(c) : c \in SeqsUpTo(0..MaxBarClose, MaxBars)} :
          /\ df' = f
          /\ input' = [input EXCEPT !.frame = f]
          /\ pc' = IF Empty(f) THEN "done" ELSE "fetched"
          /\ stdout' = IF Empty(f) THEN <<"No price data returned; aborting.">> ELSE stdout
    /\ UNCHANGED <<short_n, long_n, callee, outcome, stdin, stderr, qty_cfg,
                   current_qty, open_orders, orders>>

\* signals = compute_sma_signals(df, SHORT, LONG); main aborts on None
LiveComputeSignals ==
    /\ pc = "fetched"
    /\ LET res == LiveComputeSmaSignals(df, short_n, long_n)
       IN  /\ outcome' = res
           /\ df' = res.caller
           /\ pc' = IF res.kind = "raise" THEN "crashed"
                    ELSE IF res.signal = "None" THEN "done"
                    ELSE "computed"
           /\ stdout' = IF res.kind = "return" /\ res.signal = "None"
                        THEN <<"Not enough data to compute SMAs; aborting.">>
                        ELSE stdout
    /\ UNCHANGED <<input, short_n, long_n, callee, stdin, stderr, qty_cfg,
                   current_qty, open_orders, orders>>

\* current_qty = get_current_qty(trading_client, SYMBOL)
LiveGetCurrentQty ==
    /\ pc = "computed"
    /\ current_qty' \in Quantities
    /\ pc' = "positioned"
    /\ UNCHANGED <<df, input, short_n, long_n, callee, outcome, stdin, stdout,
                   stderr, qty_cfg, open_orders, orders>>

\* has_open_orders(trading_client, SYMBOL); main returns when it is true
LiveHasOpenOrders ==
    /\ pc = "positioned"
    /\ open_orders' \in BOOLEAN
    /\ pc' = IF open_orders' THEN "done" ELSE "deciding"
    /\ stdout' = IF open_orders'
                 THEN <<"Open orders detected; skipping to avoid double-execution.">>
                 ELSE stdout
    /\ UNCHANGED <<df, input, short_n, long_n, callee, outcome, stdin, stderr,
                   qty_cfg, current_qty, orders>>

\* the order decision and the end of main
LivePlaceOrder ==
    /\ pc = "deciding"
    /\ orders' = PlaceOrder(orders, outcome.signal, current_qty, qty_cfg)
    /\ pc' = "done"
    /\ UNCHANGED <<df, input, short_n, long_n, callee, outcome, stdin, stdout,
                   stderr, qty_cfg, current_qty, open_orders>>

NextLive ==
    \/ LiveFetchBars
    \/ LiveComputeSignals
    \/ LiveGetCurrentQty
    \/ LiveHasOpenOrders
    \/ LivePlaceOrder

SpecLive == InitLive /\ [][NextLive]_vars

-----------------------------------------------------------------------------
(* What the claims speak of, stated on the close series itself *)

Signals == {"BUY", "SELL", "HOLD"}

\* the closes of the series the engine function was called with
Closes == [i \in 1..Len(input.frame.rows) |-> input.frame.rows[i]["close"].n]

\* S[i-n+1] + ... + S[i]
RECURSIVE WindowSum(_, _, _)
WindowSum(S, i, n) ==
    IF n = 0 THEN 0 ELSE S[i - n + 1] + WindowSum(S, i, n - 1)

\* the bars at which both SMAs are defined
Aligned(S, a, b) == {i \in 1..Len(S) : a >= 1 /\ b >= 1 /\ i >= a /\ i >= b}

\* short SMA > long SMA at bar i, as sums: sum_a / a > sum_b / b
ShortAbove(S, i, a, b) == WindowSum(S, i, a) * b > WindowSum(S, i, b) * a
ShortBelow(S, i, a, b) == WindowSum(S, i, a) * b < WindowSum(S, i, b) * a

LastAligned(S, a, b) == CHOOSE i \in Aligned(S, a, b) : \A j \in Aligned(S, a, b) : j <= i
PrevAligned(S, a, b) ==
    CHOOSE i \in Aligned(S, a, b) \ {LastAligned(S, a, b)} :
        \A j \in Aligned(S, a, b) \ {LastAligned(S, a, b)} : j <= i

\* the first n bars of a series: what a bar-by-bar replay has seen after n bars
FrameHead(f, n) ==
    [columns |-> f.columns,
     rows |-> IF n >= Len(f.rows) THEN f.rows ELSE SubSeq(f.rows, 1, n)]

IsConstant(S) == \A i \in 1..Len(S) : S[i] = S[1]
IsIncreasing(S) == \A i \in 1..(Len(S) - 1) : S[i] < S[i + 1]

Ran(name) == pc = "done" /\ callee = name

\* C1: with at least two aligned points, compute_signal returns BUY iff the
\* short SMA was at or below the long SMA at the second-to-last aligned point
\* and is strictly above it at the last one, SELL iff it was at or above and
\* is strictly below, and HOLD in every other case.
C1_CrossoverOnLastTwoAligned ==
    (Ran("compute_signal") /\ Cardinality(Aligned(Closes, input.short, input.long)) >= 2) =>
        LET S == Closes
            a == input.short
            b == input.long
            prev == PrevAligned(S, a, b)
            last == LastAligned(S, a, b)
            up == ~ShortAbove(S, prev, a, b) /\ ShortAbove(S, last, a, b)
            down == ~ShortBelow(S, prev, a, b) /\ ShortBelow(S, last, a, b)
        IN  /\ outcome.kind = "return"
            /\ outcome.signal \in Signals
            /\ outcome.signal = "BUY" <=> up
            /\ outcome.signal = "SELL" <=> down
            /\ outcome.signal = "HOLD" <=> (~up /\ ~down)

\* C1 witness: the SMAs were equal at prev, short is above at last, BUY came out
C1_Witness ==
    /\ Ran("compute_signal")
    /\ Cardinality(Aligned(Closes, input.short, input.long)) >= 2
    /\ ~ShortAbove(Closes, PrevAligned(Closes, input.short, input.long), input.short, input.long)
    /\ ~ShortBelow(Closes, PrevAligned(Closes, input.short, input.long), input.short, input.long)
    /\ ShortAbove(Closes, LastAligned(Closes, input.short, input.long), input.short, input.long)
    /\ outcome.signal = "BUY"

\* C2: on a series shorter than max(short, long), positive windows in either
\* order, compute_signal returns HOLD and raises nothing.
C2_ShortSeriesHolds ==
    (/\ Ran("compute_signal")
     /\ input.short >= 1
     /\ input.long >= 1
     /\ Len(Closes) < Max(input.short, input.long)) =>
        (outcome.kind = "return" /\ outcome.signal = "HOLD")

\* C2 witness: long <= len < short, the case a guard on long_n alone lets through
C2_Witness ==
    /\ Ran("compute_signal")
    /\ input.long >= 1
    /\ input.long <= Len(Closes)
    /\ Len(Closes) < input.short
    /\ outcome.signal = "HOLD"

\* C5 (as claimed): with fewer than 2 aligned points and positive windows,
\* algo_runner.compute_sma_signals returns signal HOLD and raises nothing.
C5_AlgoHoldsBelowTwoAligned ==
    (/\ Ran("algo_runner.compute_sma_signals")
     /\ input.short >= 1
     /\ input.long >= 1
     /\ Cardinality(Aligned(Closes, input.short, input.long)) < 2) =>
        (outcome.kind = "return" /\ outcome.signal = "HOLD")

\* C6: on a series of at least max(short, long) + 1 closes, positive
\* windows, compute_signal gives the same signal on every suffix of at least
\* max(short, long) + 1 closes; and the signal sma_signal_runner prints for
\* the tail of max(short, long) + 20 bars that run_sma_signal_test feeds is
\* the signal of compute_signal on the full history.
C6_TailGivesSameSignal ==
    /\ (/\ Ran("compute_signal")
        /\ Len(Closes) >= Max(input.short, input.long) + 1) =>
           /\ outcome.kind = "return"
           /\ \A n \in (Max(input.short, input.long) + 1)..Len(Closes) :
                 ComputeSignal(FrameTail(input.frame, n), input.short, input.long).signal
                     = outcome.signal
    /\ (/\ Ran("run_sma_signal_test")
        /\ Len(Closes) >= Max(input.short, input.long) + 1) =>
           stdout = <<ComputeSignal(input.frame, input.short, input.long).signal>>

\* C6 witness: run_sma_signal_test on a history longer than the window it
\* feeds, with a crossing at the last bar
C6_Witness ==
    /\ Ran("run_sma_signal_test")
    /\ Len(Closes) > SignalTestWindow(input.short, input.long)
    /\ Len(stdin.bars) = SignalTestWindow(input.short, input.long)
    /\ stdout \in {<<"BUY">>, <<"SELL">>}

\* C7 (as claimed, for positive windows and the calls that return): after a
\* call of any of the three engine functions the caller's series holds the
\* same bars with the same fields as before.
C7_InputUnchanged ==
    (/\ pc = "done"
     /\ outcome.kind = "return"
     /\ input.short >= 1
     /\ input.long >= 1) => df = input.frame

\* C8: on a constant or strictly increasing series with 1 <= short < long,
\* compute_signal returns HOLD on the series and on every prefix of it.
C8_NoCrossHolds ==
    (/\ Ran("compute_signal")
     /\ 1 <= input.short
     /\ input.short < input.long
     /\ (IsConstant(Closes) \/ IsIncreasing(Closes))) =>
        /\ outcome.kind = "return"
        /\ outcome.signal = "HOLD"
        /\ \A n \in 0..Len(Closes) :
              ComputeSignal(FrameHead(input.frame, n), input.short, input.long)
                  = Return("HOLD", {}, FrameHead(input.frame, n))

\* C8 witness: a strictly increasing series with two aligned points
C8_Witness ==
    /\ Ran("compute_signal")
    /\ 1 <= input.short
    /\ input.short < input.long
    /\ IsIncreasing(Closes)
    /\ Len(Closes) >= input.long + 1
    /\ outcome.signal = "HOLD"

\* A request no signal can be computed from: text that is not JSON, JSON
\* that is not an object, a window int() refuses or that is not positive,
\* bars absent, not a list or empty, no bar with a close, a non-numeric close.
Malformed(req) ==
    \/ req.json # "object"
    \/ req.short.k = "bad"
    \/ req.long.k = "bad"
    \/ IntOf(req.short, DefaultShort) <= 0
    \/ IntOf(req.long, DefaultLong) <= 0
    \/ req.bars_kind # "list"
    \/ req.bars = <<>>
    \/ \A i \in 1..Len(req.bars) : req.bars[i].k = "missing"
    \/ \E i \in 1..Len(req.bars) : req.bars[i].k = "str"

Finished(name) == pc \in {"done", "crashed"} /\ callee = name

\* C3: for every stdin text sma_signal_runner.main ends normally having
\* written exactly one line to stdout, one of BUY, SELL, HOLD, and HOLD on
\* every malformed request.
C3_RunnerAlwaysPrintsOneSignal ==
    Finished("sma_signal_runner.main") =>
        /\ pc = "done"
        /\ Len(stdout) = 1
        /\ stdout[1] \in Signals
        /\ Malformed(stdin) => stdout = <<"HOLD">>

\* C3 witness: compute_signal raised on a non-numeric close and HOLD was printed
C3_Witness ==
    /\ Finished("sma_signal_runner.main")
    /\ stdin.json = "object"
    /\ \E i \in 1..Len(stdin.bars) : stdin.bars[i].k = "str"
    /\ outcome.kind = "raise"
    /\ stdout = <<"HOLD">>
    /\ stderr # <<>>

\* C4 (as claimed): every JSON response algo_runner.main prints has a signal
\* field in {BUY, SELL, HOLD}, and on a malformed request it is HOLD with a
\* reason or error string.
C4_AlgoResponseHasSignal ==
    Finished("algo_runner.main") =>
        /\ pc = "done"
        /\ \A i \in 1..Len(stdout) :
              /\ "signal" \in stdout[i].keys
              /\ stdout[i].signal \in Signals
              /\ Malformed(stdin) =>
                    (stdout[i].signal = "HOLD" /\ stdout[i].keys \cap {"reason", "error"} # {})

\* C9: a request whose short or long window is zero or negative, or whose
\* windows are equal, makes sma_signal_runner.main print HOLD, whatever the bars.
C9_DegenerateWindowsHold ==
    (/\ Finished("sma_signal_runner.main")
     /\ stdin.json = "object"
     /\ stdin.short.k # "bad"
     /\ stdin.long.k # "bad"
     /\ \/ IntOf(stdin.short, DefaultShort) <= 0
        \/ IntOf(stdin.long, DefaultLong) <= 0
        \/ IntOf(stdin.short, DefaultShort) = IntOf(stdin.long, DefaultLong)) =>
        stdout = <<"HOLD">>

\* C9 witness: equal positive windows on numeric bars that move at the last
\* step, two aligned rows, the crossover rule reached
C9_Witness ==
    /\ Finished("sma_signal_runner.main")
    /\ stdin.json = "object"
    /\ stdin.short.k = "int"
    /\ stdin.short.v >= 1
    /\ stdin.long = stdin.short
    /\ Len(stdin.bars) >= stdin.short.v + 1
    /\ \A i \in 1..Len(stdin.bars) : stdin.bars[i].k = "num"
    /\ stdin.bars[Len(stdin.bars)] # stdin.bars[Len(stdin.bars) - 1]
    /\ outcome.kind = "return"
    /\ stdout = <<"HOLD">>

\* the thousandth of a share nearest to q (q in thirds of a thousandth)
NearestThousandth(q) == CHOOSE m \in (q - 1)..(q + 1) : m % 3 = 0

\* what holds of every order of a run, but for its quantity
OrderAllowed(o) ==
    /\ ~Empty(input.frame)
    /\ outcome.kind = "return"
    /\ outcome.signal # "None"
    /\ ~open_orders
    /\ \/ o.side = "BUY" /\ outcome.signal = "BUY" /\ current_qty <= 0
       \/ o.side = "SELL" /\ outcome.signal = "SELL" /\ current_qty > 0

\* C10 (as claimed): at most one order per run, none on empty data, on a
\* None result or with an open order; a BUY of quantity QTY only on signal
\* BUY with position <= 0; a SELL only on signal SELL with position > 0, of
\* quantity equal to the position.
C10_OrderPolicyExactQuantity ==
    /\ Len(orders) <= 1
    /\ \A i \in 1..Len(orders) :
          /\ OrderAllowed(orders[i])
          /\ orders[i].side = "BUY" => orders[i].qty = qty_cfg
          /\ orders[i].side = "SELL" => orders[i].qty = current_qty

\* C10 (amended): the same, with the BUY quantity QTY rounded to 3 decimals
\* and the SELL quantity the position rounded to 3 decimals.
C10_OrderPolicyRoundedQuantity ==
    /\ Len(orders) <= 1
    /\ \A i \in 1..Len(orders) :
          /\ OrderAllowed(orders[i])
          /\ orders[i].side = "BUY" =>
                (qty_cfg > 0 /\ orders[i].qty = NearestThousandth(qty_cfg))
          /\ orders[i].side = "SELL" => orders[i].qty = NearestThousandth(current_qty)

\* C10 witness: a SELL order that flattens a whole-share position
C10_Witness ==
    /\ pc = "done"
    /\ outcome.signal = "SELL"
    /\ current_qty = 3000
    /\ orders = <<[side |-> "SELL", qty |-> 3000]>>

====
